---- MODULE Spec2Model ----
(***************************************************************************)
(* Model of badgecheck/serializers/badge_instance.py: the four versioned   *)
(* badge-assertion serializers (0.5.0, 0.5.1, 1.0, 1.1), their             *)
(* to_representation methods and the serialization context they share.     *)
(*                                                                         *)
(* An ordered mapping (OrderedDict) is a sequence of <<key, value>> pairs. *)
(* A stored json dict is a function whose DOMAIN is the set of keys that   *)
(* are present.  A serialization context is such a function as well.       *)
(***************************************************************************)
EXTENDS Integers, Sequences, FiniteSets, TLC

VARIABLES ser, last, first, shared, cver, cctx, pc, cinst, cprops, cres

vars == <<ser, last, first, shared, cver, cctx, pc, cinst, cprops, cres>>
seqVars == <<ser, last, first>>
concVars == <<shared, cver, cctx, pc, cinst, cprops, cres>>

----------------------------------------------------------------------------
(* Literals of the source *)

CONTEXT_URI == "https://w3id.org/openbadges/v1"
ASSERTION == "Assertion"
NONE == "None"

Versions == {"0.5.0", "0.5.1", "1.0", "1.1"}

----------------------------------------------------------------------------
(* Ordered mappings *)

Keys(d) == {d[i][1] : i \in DOMAIN d}

Has(d, k) == k \in Keys(d)

Get(d, k) == d[CHOOSE i \in DOMAIN d : d[i][1] = k][2]

\* d[k] = v : an existing key keeps its position, a new key goes last
SetItem(d, k, v) ==
    IF Has(d, k)
    THEN [i \in DOMAIN d |-> IF d[i][1] = k THEN <<k, v>> ELSE d[i]]
    ELSE Append(d, <<k, v>>)

\* d.pop(k)
Pop(d, k) == SelectSeq(d, LAMBDA p : p[1] # k)

\* OrderedDict(items): items inserted left to right
RECURSIVE OrderedDictOf(_, _)
OrderedDictOf(items, acc) ==
    IF items = <<>> THEN acc
    ELSE OrderedDictOf(Tail(items), SetItem(acc, Head(items)[1], Head(items)[2]))

OrderedDict(items) == OrderedDictOf(items, <<>>)

\* dict.get(k, default) on a dict modelled as a function
DictGet(d, k, default) == IF k \in DOMAIN d THEN d[k] ELSE default

----------------------------------------------------------------------------
(* Field declarations of the serializer classes, in declaration order *)

Field(name, kind, write_only, required) ==
    [name |-> name, kind |-> kind, write_only |-> write_only, required |-> required]

V0_5BaseFields ==
    << Field("badge", "badge_class", TRUE, TRUE),
       Field("issued_on", "datetime", FALSE, FALSE),
       Field("expires", "datetime", FALSE, FALSE),
       Field("evidence", "url", FALSE, FALSE) >>

V0_5_1Fields ==
    V0_5BaseFields \o
    << Field("recipient", "hash_string", TRUE, TRUE),
       Field("salt", "string", TRUE, FALSE) >>

V0_5_0Fields ==
    V0_5BaseFields \o << Field("recipient", "email", TRUE, TRUE) >>

V1_0VerifyField_readable == Field("verify", "verification", FALSE, TRUE)

V1_0VerifyField == Field("verify", "verification", TRUE, TRUE)

V1_0Fields ==
    << Field("uid", "string", FALSE, TRUE),
       Field("recipient", "recipient", FALSE, TRUE),
       Field("badge", "url", TRUE, TRUE),
       Field("issuedOn", "datetime", FALSE, TRUE),
       V1_0VerifyField,
       Field("image", "url", FALSE, FALSE),
       Field("expires", "datetime", FALSE, FALSE),
       Field("evidence", "url", FALSE, FALSE) >>

\* the declared fields of V1_1 follow the inherited ones; get_fields then
\* updates the mapping with '@context'
V1_1Fields ==
    V1_0Fields \o
    << Field("id", "url", FALSE, TRUE),
       Field("type", "ld_type", FALSE, TRUE),
       Field("@context", "string", FALSE, TRUE) >>

get_fields(version) ==
    CASE version = "0.5.0" -> V0_5_0Fields
      [] version = "0.5.1" -> V0_5_1Fields
      [] version = "1.0" -> V1_0Fields
      [] version = "1.1" -> V1_1Fields

----------------------------------------------------------------------------
(* Collaborators imported from badgecheck.serializers.fields,              *)
(* badgecheck.serializers.badge_class and badgecheck.validators            *)

ISO_2020 == "2020-01-01T00:00:00Z"
EPOCH_2020 == "1577836800"
ISO_2030 == "2030-01-01T00:00:00Z"

\* BadgeDateTimeField: a Unix epoch or an ISO-8601 timestamp, normalised to
\* one canonical textual form
BadgeDateTimeField(value) == IF value = EPOCH_2020 THEN ISO_2020 ELSE value

\* RecipientSerializer(obj, context).data: identity is the recipient
\* identifier carried by the context, hashed defaults to false and type to
\* "email", salt is emitted only when the object has one
RecipientSerializer(obj, context) ==
    << <<"identity", DictGet(context, "recipient_id", NONE)>>,
       <<"hashed", DictGet(obj, "hashed", FALSE)>>,
       <<"type", DictGet(obj, "type", "email")>> >>
    \o (IF "salt" \in DOMAIN obj THEN << <<"salt", obj["salt"]>> >> ELSE <<>>)

\* BadgeClassSerializerV0_5 / V1_0 / V1_1 (obj, context).data
BadgeClassSerializer(variant, obj, context) ==
    (IF DictGet(context, "embedded", FALSE)
     THEN <<>>
     ELSE << <<"@context", CONTEXT_URI>>, <<"type", "BadgeClass">> >>)
    \o (IF variant = "1.1" THEN << <<"id", obj.url>> >> ELSE <<>>)
    \o << <<"name", obj.name>> >>
    \o (IF variant = "0.5"
        THEN << <<"version", "0.5.0">> >>
        ELSE << <<"criteria", obj.criteria>> >>)

\* JsonLdValidator(document_loader)(document): passes when the loader
\* resolves every term, fails when it reports an unresolvable term, fails or
\* times out
jsonld_document_loader == "jsonld_document_loader"

JsonLdValidator(document_loader, document) ==
    document_loader = jsonld_document_loader

\* representation of one readable field value
FieldToRepresentation(f, value, context) ==
    CASE f.kind = "datetime" -> BadgeDateTimeField(value)
      [] f.kind = "recipient" -> RecipientSerializer(value, context)
      [] OTHER -> value

----------------------------------------------------------------------------
(* rest_framework.serializers.Serializer.to_representation, as called by   *)
(* super(...).to_representation(obj): write-only fields are skipped, an    *)
(* absent optional attribute is skipped, an absent required attribute      *)
(* raises, a None attribute is emitted as None                             *)

Raise(err, field) == [ok |-> FALSE, doc |-> <<>>, err |-> err, field |-> field]

Return(doc) == [ok |-> TRUE, doc |-> doc, err |-> "", field |-> ""]

ObjectView(json) == json

IsNone(f, value) == f.kind # "recipient" /\ value = NONE

readable_fields(fields) == SelectSeq(fields, LAMBDA f : ~f.write_only)

RECURSIVE FieldsToRepresentation(_, _, _, _)
FieldsToRepresentation(fields, obj, context, ret) ==
    IF fields = <<>> THEN Return(ret)
    ELSE LET f == Head(fields) IN
         IF f.name \notin DOMAIN obj
         THEN IF f.required
              THEN Raise("AttributeError", f.name)
              ELSE FieldsToRepresentation(Tail(fields), obj, context, ret)
         ELSE IF IsNone(f, obj[f.name])
         THEN FieldsToRepresentation(Tail(fields), obj, context,
                                     Append(ret, <<f.name, NONE>>))
         ELSE FieldsToRepresentation(Tail(fields), obj, context,
                  Append(ret, <<f.name, FieldToRepresentation(f, obj[f.name], context)>>))

SerializerToRepresentation(fields, obj, context) ==
    FieldsToRepresentation(readable_fields(fields), obj, context, <<>>)

----------------------------------------------------------------------------
(* V0_5Base.to_representation and BadgeInstanceSerializerV1_0              *)
(* .to_representation, statement by statement                              *)

IsV0_5(version) == version \in {"0.5.0", "0.5.1"}

\* self.context['recipient_id'] = instance.recipient_id
set_recipient_id(context, instance) ==
    ("recipient_id" :> instance.recipient_id) @@ context

V0_5RecipientInput_hashed(instance) ==
    IF "salt" \in DOMAIN instance.json
    THEN [recipient |-> instance.recipient_id, hashed |-> TRUE, type |-> "email",
          salt |-> instance.json["salt"]]
    ELSE [recipient |-> instance.recipient_id, hashed |-> FALSE, type |-> "email"]

\* the dict handed to RecipientSerializer by V0_5Base
V0_5RecipientInput(instance) ==
    [recipient |-> instance.recipient_id, hashed |-> FALSE, type |-> "email"]

\* for prop in (('issued_on', 'issuedOn'),): rename unless the value is None
RenameProps(props) ==
    IF Has(props, "issued_on") /\ Get(props, "issued_on") # NONE
    THEN SetItem(Pop(props, "issued_on"), "issuedOn", Get(props, "issued_on"))
    ELSE props

V0_5Props(version, instance, context) ==
    LET props == SerializerToRepresentation(get_fields(version),
                                            ObjectView(instance.json), context)
    IN  IF ~props.ok THEN props
        ELSE Return(RenameProps(
                 SetItem(props.doc, "recipient",
                         RecipientSerializer(V0_5RecipientInput(instance),
                                             [recipient_id |-> instance.recipient_id]))))

V1_0Props(version, instance, context) ==
    SerializerToRepresentation(get_fields(version), ObjectView(instance.json), context)

V0_5Header(instance, context) ==
    (IF ~DictGet(context, "embedded", FALSE)
     THEN << <<"@context", CONTEXT_URI>> >> ELSE <<>>)
    \o << <<"type", ASSERTION>>, <<"id", instance.instance_url>> >>

V1_0Header_no_context(instance, context) ==
    << <<"type", ASSERTION>>, <<"id", instance.instance_url>> >>

V1_0Header(instance, context) ==
    (IF ~DictGet(context, "embedded", FALSE)
     THEN << <<"@context", CONTEXT_URI>> >> ELSE <<>>)
    \o << <<"type", ASSERTION>>, <<"id", instance.instance_url>> >>

\* result = OrderedDict(header.items() + props.items())
MergeHeader(header, props) == OrderedDict(header \o props)

get_badge_class_serializer_class_base(version) == "1.0"

get_badge_class_serializer_class(version) ==
    IF version = "1.1" THEN "1.1" ELSE "1.0"

BadgeContext(instance) == [instance |-> instance, embedded |-> TRUE]

V0_5Badge(result, instance) ==
    SetItem(result, "badge",
            BadgeClassSerializer("0.5", DictGet(instance.json, "badge", NONE),
                                 BadgeContext(instance)))

V1_0Badge(version, result, instance) ==
    SetItem(result, "badge",
            BadgeClassSerializer(get_badge_class_serializer_class(version),
                                 instance.badge, BadgeContext(instance)))

\* the three phases after the context write, for the class of `version`
Props(version, instance, context) ==
    IF IsV0_5(version) THEN V0_5Props(version, instance, context)
    ELSE V1_0Props(version, instance, context)

Assemble(version, instance, context, props) ==
    IF IsV0_5(version) THEN MergeHeader(V0_5Header(instance, context), props)
    ELSE MergeHeader(V1_0Header(instance, context), props)

Badge(version, result, instance) ==
    IF IsV0_5(version) THEN V0_5Badge(result, instance)
    ELSE V1_0Badge(version, result, instance)

\* BadgeInstanceSerializerV1_1.__init__ appends the validator; the other
\* classes have none
Validators(version, context) ==
    IF version = "1.1"
    THEN << [validator |-> "JsonLdValidator",
             document_loader |-> DictGet(context, "document_loader",
                                         jsonld_document_loader)] >>
    ELSE <<>>

to_representation_validating(version, instance, context) ==
    LET ctx == set_recipient_id(context, instance)
        props == Props(version, instance, ctx)
        doc == Badge(version, Assemble(version, instance, ctx, props.doc), instance)
        vs == Validators(version, context)
    IN  [context |-> ctx,
         result |-> IF ~props.ok THEN props
                    ELSE IF \E i \in DOMAIN vs :
                               ~JsonLdValidator(vs[i].document_loader, doc)
                    THEN Raise("ValidationError", "")
                    ELSE Return(doc)]

to_representation_late_write(version, instance, context) ==
    LET ctx == set_recipient_id(context, instance)
        props == Props(version, instance, context)
    IN  [context |-> ctx,
         result |-> IF ~props.ok THEN props
                    ELSE Return(Badge(version,
                                      Assemble(version, instance, ctx, props.doc),
                                      instance))]

\* the whole method: the outcome and the context it leaves behind
to_representation(version, instance, context) ==
    LET ctx == set_recipient_id(context, instance)
        props == Props(version, instance, ctx)
    IN  [context |-> ctx,
         result |-> IF ~props.ok THEN props
                    ELSE Return(Badge(version,
                                      Assemble(version, instance, ctx, props.doc),
                                      instance))]

NewSerializer(version, context) ==
    [version |-> version, context |-> context,
     validators |-> Validators(version, context)]

----------------------------------------------------------------------------
(* Stored badge instances and serialization contexts the calls draw from *)

EmptyDict == [k \in {} |-> NONE]

URL_A == "https://example.org/a/1"
URL_B == "https://example.org/a/2"
HASH_A == "sha256$abc123"

BadgeClassA ==
    [name |-> "Badge A", criteria |-> "https://example.org/c/1",
     url |-> "https://example.org/b/1"]
BadgeClassB ==
    [name |-> "Badge B", criteria |-> "https://example.org/c/2",
     url |-> "https://example.org/b/2"]

\* who the instance was awarded to: the verified recipient identifier, the
\* instance URL and the badge class object
Awards ==
    { [recipient_id |-> "a@example.org", instance_url |-> URL_A, badge |-> BadgeClassA],
      [recipient_id |-> "b@example.org", instance_url |-> URL_B, badge |-> BadgeClassB] }

IssuedOn_0_5 ==
    { EmptyDict, "issued_on" :> NONE, "issued_on" :> ISO_2020, "issued_on" :> EPOCH_2020 }

Recipient_0_5 ==
    { "recipient" :> "a@example.org",
      ("recipient" :> HASH_A) @@ ("salt" :> "xyz") }

Json_0_5(award) ==
    { ("badge" :> award.badge) @@ ("expires" :> ISO_2030) @@ i @@ r :
        i \in IssuedOn_0_5, r \in Recipient_0_5 }

StoredRecipient(award) ==
    IF award.instance_url = URL_A
    THEN [identity |-> HASH_A, hashed |-> TRUE, type |-> "email", salt |-> "xyz"]
    ELSE [identity |-> award.recipient_id, hashed |-> FALSE, type |-> "email"]

Verify_1_x == { EmptyDict, "verify" :> "hosted" }

LinkedData_1_x ==
    { EmptyDict,
      ("id" :> URL_A) @@ ("type" :> ASSERTION) @@ ("@context" :> CONTEXT_URI),
      ("id" :> URL_B) @@ ("type" :> ASSERTION) @@ ("@context" :> CONTEXT_URI),
      ("id" :> URL_A) @@ ("type" :> "BadgeClass") @@ ("@context" :> CONTEXT_URI) }

Json_1_x(award) ==
    { ("uid" :> "u1") @@ ("recipient" :> StoredRecipient(award))
      @@ ("badge" :> award.badge.url) @@ ("issuedOn" :> EPOCH_2020)
      @@ ("evidence" :> "https://example.org/e/1") @@ v @@ ld :
        v \in Verify_1_x, ld \in LinkedData_1_x }

Instance(award, json) ==
    [json |-> json, recipient_id |-> award.recipient_id,
     instance_url |-> award.instance_url, badge |-> award.badge]

Instances_0_5 == UNION { { Instance(a, j) : j \in Json_0_5(a) } : a \in Awards }
Instances_1_x == UNION { { Instance(a, j) : j \in Json_1_x(a) } : a \in Awards }

\* the caller serializes an instance with the serializer of its own family
InstancesOf(version) == IF IsV0_5(version) THEN Instances_0_5 ELSE Instances_1_x

Embedded == { EmptyDict, "embedded" :> FALSE, "embedded" :> TRUE }

DocumentLoaders ==
    { EmptyDict, "document_loader" :> "unresolvable_term",
      "document_loader" :> "failing_loader", "document_loader" :> "timeout_loader" }

\* a context dict may still hold the recipient_id an earlier serializer wrote
StaleRecipient ==
    { EmptyDict } \cup { "recipient_id" :> a.recipient_id : a \in Awards }

ContextsOf(version) ==
    { e @@ l @@ r :
        e \in Embedded,
        l \in (IF version = "1.1" THEN DocumentLoaders ELSE { EmptyDict }),
        r \in StaleRecipient }

----------------------------------------------------------------------------
(* Calls made one after another on a serializer object *)

IdleConc ==
    /\ shared = FALSE
    /\ cver = "1.0"
    /\ cctx = [p \in {"p1", "p2"} |-> EmptyDict]
    /\ pc = [p \in {"p1", "p2"} |-> "idle"]
    /\ cinst = [p \in {"p1", "p2"} |-> <<>>]
    /\ cprops = [p \in {"p1", "p2"} |-> <<>>]
    /\ cres = [p \in {"p1", "p2"} |-> <<>>]

Init ==
    /\ \E version \in Versions : \E context \in ContextsOf(version) :
          ser = NewSerializer(version, context)
    /\ last = <<>>
    /\ first = <<>>
    /\ IdleConc

\* SerializerClass(instance, context=context)
Construct(version, context) ==
    /\ ser' = NewSerializer(version, context)
    /\ last' = <<>>
    /\ first' = <<>>
    /\ UNCHANGED concVars

\* serializer.to_representation(instance); the caller may keep the outcome
\* of a call to compare a later call with, and `between` records that a
\* call for another instance was made on the serializer since
Serialize(instance, keep) ==
    LET out == to_representation(ser.version, instance, ser.context)
        call == [instance |-> instance, result |-> out.result]
    IN  /\ instance \in InstancesOf(ser.version)
        /\ ser' = [ser EXCEPT !.context = out.context]
        /\ last' = << call >>
        /\ first' = IF keep THEN << [call |-> call, between |-> FALSE] >>
                    ELSE IF first # <<>> /\ first[1].call.instance # instance
                    THEN << [first[1] EXCEPT !.between = TRUE] >>
                    ELSE first
        /\ UNCHANGED concVars

Next ==
    \/ \E version \in Versions : \E context \in ContextsOf(version) :
          Construct(version, context)
    \/ \E instance \in InstancesOf(ser.version) : \E keep \in BOOLEAN :
          Serialize(instance, keep)

Spec == Init /\ [][Next]_vars

----------------------------------------------------------------------------
(* Two calls whose statements interleave; the two serializers were built   *)
(* with one context dict (shared) or with a dict each                      *)

Procs == {"p1", "p2"}

CtxOf(p) == IF shared THEN "p1" ELSE p

ConcInit ==
    /\ ser = NewSerializer("1.0", EmptyDict)
    /\ last = <<>>
    /\ first = <<>>
    /\ shared \in BOOLEAN
    /\ cver \in Versions
    /\ \E e \in Embedded : cctx = [p \in Procs |-> e]
    /\ pc = [p \in Procs |-> "idle"]
    /\ cinst = [p \in Procs |-> <<>>]
    /\ cprops = [p \in Procs |-> <<>>]
    /\ cres = [p \in Procs |-> <<>>]

\* obj = ObjectView(instance.json); self.context['recipient_id'] = ...
WriteRecipientId(p, instance) ==
    /\ pc[p] = "idle"
    /\ instance \in InstancesOf(cver)
    /\ cinst' = [cinst EXCEPT ![p] = << instance >>]
    /\ cctx' = [cctx EXCEPT ![CtxOf(p)] = set_recipient_id(cctx[CtxOf(p)], instance)]
    /\ pc' = [pc EXCEPT ![p] = "fields"]
    /\ UNCHANGED <<seqVars, shared, cver, cprops, cres>>

\* props = super(...).to_representation(obj), recipient and rename in 0.5
SerializeFields(p) ==
    /\ pc[p] = "fields"
    /\ LET props == Props(cver, cinst[p][1], cctx[CtxOf(p)])
       IN  /\ cprops' = [cprops EXCEPT ![p] = << props >>]
           /\ IF props.ok
              THEN /\ pc' = [pc EXCEPT ![p] = "header"]
                   /\ cres' = cres
              ELSE /\ pc' = [pc EXCEPT ![p] = "done"]
                   /\ cres' = [cres EXCEPT ![p] = << props >>]
    /\ UNCHANGED <<seqVars, shared, cver, cctx, cinst>>

\* header = ...; result = OrderedDict(header.items() + props.items())
AssembleHeader(p) ==
    /\ pc[p] = "header"
    /\ cres' = [cres EXCEPT ![p] =
                  << Return(Assemble(cver, cinst[p][1], cctx[CtxOf(p)],
                                     cprops[p][1].doc)) >>]
    /\ pc' = [pc EXCEPT ![p] = "badge"]
    /\ UNCHANGED <<seqVars, shared, cver, cctx, cinst, cprops>>

\* result['badge'] = badge_class_serializer.data; return result
EmbedBadge(p) ==
    /\ pc[p] = "badge"
    /\ cres' = [cres EXCEPT ![p] =
                  << Return(Badge(cver, cres[p][1].doc, cinst[p][1])) >>]
    /\ pc' = [pc EXCEPT ![p] = "done"]
    /\ UNCHANGED <<seqVars, shared, cver, cctx, cinst, cprops>>

ConcNext ==
    \E p \in Procs :
        \/ \E instance \in InstancesOf(cver) : WriteRecipientId(p, instance)
        \/ SerializeFields(p)
        \/ AssembleHeader(p)
        \/ EmbedBadge(p)

SpecConc == ConcInit /\ [][ConcNext]_vars

----------------------------------------------------------------------------
(* The last call on the serializer object *)

Called == last # <<>>
Returned == Called /\ last[1].result.ok
Doc == last[1].result.doc
Inst == last[1].instance
EmbeddedMode == DictGet(ser.context, "embedded", FALSE)

RequiredOutputKeys(version) ==
    IF version = "1.1"
    THEN {"uid", "recipient", "issuedOn", "id", "type", "@context"}
    ELSE IF version = "1.0" THEN {"uid", "recipient", "issuedOn"}
    ELSE {}

\* C1: a non-embedded document has type "Assertion" and id equal to the
\* instance's instance_url, whatever id and type the stored data carries
C1_TypeAndId ==
    (Returned /\ ~EmbeddedMode) =>
        /\ Has(Doc, "type") /\ Get(Doc, "type") = ASSERTION
        /\ Has(Doc, "id") /\ Get(Doc, "id") = Inst.instance_url

WellFormedHash(value) == value = HASH_A

HashedWithSalt ==
    /\ Returned /\ ser.version = "0.5.1"
    /\ WellFormedHash(Inst.json["recipient"])
    /\ "salt" \in DOMAIN Inst.json

C6_ContextFollowsEmbedded ==
    Returned =>
        /\ EmbeddedMode => ~Has(Doc, "@context")
        /\ (IsV0_5(ser.version) /\ ~EmbeddedMode) =>
              (Has(Doc, "@context") /\ Get(Doc, "@context") = CONTEXT_URI)

BadgeVariant(version) ==
    CASE version \in {"0.5.0", "0.5.1"} -> "0.5"
      [] version = "1.0" -> "1.0"
      [] version = "1.1" -> "1.1"

BadgeClassOf(version, instance) ==
    IF version \in {"0.5.0", "0.5.1"} THEN instance.json["badge"] ELSE instance.badge

\* C7: the badge value is what the badge-class serializer of the matching
\* variant returns for the instance's badge class with embedded true,
\* whatever the assertion's own embedded flag; it is the last key of the
\* document and occurs once
C7_BadgeEmbedded ==
    Returned =>
        /\ Doc[Len(Doc)] =
              <<"badge", BadgeClassSerializer(BadgeVariant(ser.version),
                                              BadgeClassOf(ser.version, Inst),
                                              [embedded |-> TRUE])>>
        /\ Cardinality({i \in DOMAIN Doc : Doc[i][1] = "badge"}) = 1

C7_Witness ==
    /\ Returned /\ ser.version = "1.1" /\ ~EmbeddedMode
    /\ Has(Doc, "badge") /\ Has(Get(Doc, "badge"), "id")

\* C8: a call returns what the kept earlier call on the same serializer
\* object returned for the same instance, whatever calls came between
C8_Idempotent ==
    (Called /\ first # <<>> /\ first[1].call.instance = Inst) =>
        last[1].result = first[1].call.result

C8_Witness ==
    /\ Returned /\ first # <<>> /\ first[1].between
    /\ first[1].call.instance = Inst
    /\ ser.version \in {"1.0", "1.1"}

\* C9: a call whose statements interleave with another call's returns what
\* it returns when run alone, also when the two share one context dict
C9_Isolated ==
    \A p \in Procs :
        pc[p] = "done" =>
            cres[p][1] = to_representation(cver, cinst[p][1], cctx[CtxOf(p)]).result

\* C10: a 0.5.0 or 0.5.1 document never has the key issued_on; a stored
\* issued_on appears under issuedOn with its codec value
C10_IssuedOnRenamed ==
    (Returned /\ IsV0_5(ser.version)) =>
        /\ ~Has(Doc, "issued_on")
        /\ "issued_on" \in DOMAIN Inst.json =>
              /\ Has(Doc, "issuedOn")
              /\ Get(Doc, "issuedOn") = BadgeDateTimeField(Inst.json["issued_on"])

====
